---- MODULE Spec2Model ----
(***************************************************************************)
(* Model of mask_maker.py: the LassoManager capture session (onpress,      *)
(* callback, the class-level paths list, the canvas widget lock) and the   *)
(* rasterizer mask_create with the merge step combine_data_and_mask.       *)
(*                                                                         *)
(* Numbers: axis coordinates and polygon vertices are integers.  The       *)
(* spacing distx = (max-min)/(lenx-1) is kept as an exact ratio            *)
(* <<numerator, denominator>>; a sample coordinate min + k*distx is kept   *)
(* multiplied by the denominator, and a polygon vertex is multiplied by    *)
(* the same factor before the two are compared.  The arithmetic is exact:  *)
(* the rounding of numpy's floating-point division is not modelled (with   *)
(* it np.arange can return one sample more than the axis has coordinates). *)
(* Array cells are 0/1: contains_points returns a bool array, and numpy's  *)
(* + on bool arrays is the logical or; np.zeros gives 0.                   *)
(***************************************************************************)
EXTENDS Integers, Sequences, FiniteSets, TLC

VARIABLES
    paths,        \* LassoManager.paths: the class-level list (line 199)
    constructed,  \* the LassoManager instances that exist
    canvasOf,     \* self.canvas of each instance
    lasso,        \* self.lasso of each instance ("none": attribute absent)
    widgetlock,   \* owner of canvas.widgetlock, per canvas
    completed,    \* per instance: callbacks that ran to their end
    last,         \* the last handler that ran and how it ended
    xs, ys,       \* data_array.coords[xcoord].values, [ycoord].values
    mask,         \* what mask_create returned (or raised)
    dataset       \* what combine_data_and_mask returned (or raised)

vars == <<paths, constructed, canvasOf, lasso, widgetlock, completed, last,
          xs, ys, mask, dataset>>

----------------------------------------------------------------------------
(* Bounds of the model *)

MaxAxisLen == 3

\* the coordinate values an axis is drawn from
Coords == 0..(MaxAxisLen - 1)

MaxPaths == 3

Sessions == {1, 2}

Canvases == {1, 2}

(* Vertex sequences a lasso may deliver to callback: none, one point, and  *)
(* closed regions over the grid's coordinate range.                        *)
VertsInputs ==
    { << >>,
      << <<1, 1>> >>,
      << <<1, 0>>, <<3, 0>>, <<3, 3>>, <<1, 3>> >>,
      << <<0, 1>>, <<3, 1>>, <<0, 3>> >> }

----------------------------------------------------------------------------
(* Sequences and axes *)

RECURSIVE SortedSeq(_)
SortedSeq(S) ==
    IF S = {} THEN << >>
    ELSE LET m == CHOOSE a \in S : \A b \in S : a <= b
         IN  <<m>> \o SortedSeq(S \ {m})

\* the coordinate axes of a field: strictly increasing coordinate values
Axes == { SortedSeq(S) : S \in SUBSET Coords }

RECURSIVE SeqsUpTo(_, _)
SeqsUpTo(S, n) ==
    IF n = 0 THEN { << >> }
    ELSE LET shorter == SeqsUpTo(S, n - 1)
         IN  shorter \cup { Append(q, e) : q \in { r \in shorter : Len(r) = n - 1 }, e \in S }

\* an array holds its cells: the sequence with every element computed
AsArray(q) == SubSeq(q, 1, Len(q))

Range(q) == { q[k] : k \in 1..Len(q) }

\* Python's max(xs) and min(xs) on a non-empty array
Max(q) == CHOOSE a \in Range(q) : \A b \in Range(q) : a >= b

Min(q) == CHOOSE a \in Range(q) : \A b \in Range(q) : a <= b

----------------------------------------------------------------------------
(* matplotlib.path.Path *)

\* Path(verts): the vertex array must have shape (M, 2); an empty list has
\* shape (0,) and the constructor raises ValueError.
PathRaises(verts) == Len(verts) = 0

Path(verts) == [vertices |-> verts]

\* the paths callback can have stored
StorablePaths == { Path(v) : v \in { w \in VertsInputs : ~PathRaises(w) } }

\* One edge (v0 -> v1) of the crossings test of point_in_path, for the point
\* (tx, ty); all coordinates carry the same scale per axis.
Crosses(v0, v1, tx, ty) ==
    LET yflag0 == v0[2] >= ty
        yflag1 == v1[2] >= ty
    IN  /\ yflag0 # yflag1
        /\ (((v1[2] - ty) * (v0[1] - v1[1]) >= (v1[1] - tx) * (v0[2] - v1[2])) <=> yflag1)

\* The test of one sample point pt = <<x*sx, y*sy>> against the scaled
\* vertices v of a path: a path of
\* fewer than 3 vertices contains nothing; otherwise the parity of the
\* crossings over the edges, the closing edge last -> first included.
Inside(v, pt) ==
    LET n == Len(v)
        nxt(k) == IF k = n THEN 1 ELSE k + 1
        crossings == { k \in 1..n : Crosses(v[k], v[nxt(k)], pt[1], pt[2]) }
    IN  IF n < 3 THEN FALSE ELSE Cardinality(crossings) % 2 = 1

\* the vertices of p in the scale of the sample points
Scaled(p, sx, sy) ==
    AsArray([ k \in 1..Len(p.vertices) |-> << p.vertices[k][1] * sx, p.vertices[k][2] * sy >> ])

ContainsPoint(p, pt, sx, sy) == Inside(Scaled(p, sx, sy), pt)

\* p.contains_points(points): one 0/1 cell per point
ContainsPoints(p, points, sx, sy) ==
    LET v == Scaled(p, sx, sy)
    IN  AsArray([ k \in 1..Len(points) |-> IF Inside(v, points[k]) THEN 1 ELSE 0 ])

----------------------------------------------------------------------------
(* numpy *)

NaN == <<0, 0>>

\* Dist with the division guarded: a single coordinate gets the spacing 1
Dist_Guarded(q) == IF Len(q) - 1 = 0 THEN <<1, 1>> ELSE << Max(q) - Min(q), Len(q) - 1 >>

\* (max(q) - min(q)) / (len(q) - 1) as the ratio <<numerator, denominator>>;
\* numpy's division of 0 by 0 gives nan and does not raise
Dist(q) == IF Len(q) - 1 = 0 THEN NaN ELSE << Max(q) - Min(q), Len(q) - 1 >>

\* np.arange raises ValueError (cannot compute length) when the step is nan
ArangeRaises(dist) == dist = NaN

CeilDiv(a, b) == IF a % b = 0 THEN a \div b ELSE (a \div b) + 1

\* the length of np.arange(lo, hi + dist, dist): ceil((stop - start)/step)
ArangeLen(lo, hi, dist) ==
    LET span == (hi - lo) * dist[2] + dist[1]   \* (stop - start), times the denominator
        n == CeilDiv(span, dist[1])
    IN  IF n < 0 THEN 0 ELSE n

\* np.arange(min(q), max(q) + dist, dist), each value times dist's denominator
Arange(q) ==
    LET d == Dist(q)
    IN  AsArray([ k \in 1..ArangeLen(Min(q), Max(q), d) |-> Min(q) * d[2] + (k - 1) * d[1] ])

\* np.meshgrid, flatten and vstack(...).T: the points row by row, y-major
Points(xv, yv) ==
    AsArray([ k \in 1..(Len(xv) * Len(yv)) |->
                << xv[((k - 1) % Len(xv)) + 1], yv[((k - 1) \div Len(xv)) + 1] >> ])

\* + on one cell of two bool arrays
BoolAdd(a, b) == IF a + b > 0 THEN 1 ELSE 0

\* grids[i] + grids[j]
VAdd(g, h) == AsArray([ k \in 1..Len(g) |-> BoolAdd(g[k], h[k]) ])

Array(shape, flat) == [kind |-> "array", shape |-> shape, flat |-> flat]

Raised(what) == [kind |-> "error", error |-> what]

\* full.reshape(r, c): the same cells in the same order under a new shape
Reshape(flat, r, c) ==
    IF r * c # Len(flat) THEN Raised("ValueError") ELSE Array(<<r, c>>, flat)

\* np.zeros((r, c))
Zeros(r, c) == Array(<<r, c>>, AsArray([ k \in 1..(r * c) |-> 0 ]))

\* cell [a][b] (0-based) of a 2D array
Cell(m, a, b) == m.flat[a * m.shape[2] + b + 1]

----------------------------------------------------------------------------
(* mask_create *)

\* the while loop of lines 144-147; i is the 0-based index of the code
RECURSIVE SumLoop(_, _, _)
SumLoop(full, i, grids) ==
    IF i < Len(grids) THEN SumLoop(VAdd(full, grids[i + 1]), i + 1, grids) ELSE full

\* Full with the loop starting one index too far: grids[2] is never added
Full_OffByOne(grids) ==
    IF Len(grids) = 1 THEN grids[1]
    ELSE IF Len(grids) = 2 THEN VAdd(grids[1], grids[2])
    ELSE SumLoop(VAdd(grids[1], grids[2]), 3, grids)

\* Full with the two-grid sum dropped: the first grid is taken alone
Full_FirstOnly(grids) ==
    IF Len(grids) = 1 THEN grids[1]
    ELSE IF Len(grids) = 2 THEN grids[1]
    ELSE SumLoop(grids[1], 2, grids)

\* lines 138-147: one grid passes through, two are added, more are looped over
Full(grids) ==
    IF Len(grids) = 1 THEN grids[1]
    ELSE IF Len(grids) = 2 THEN VAdd(grids[1], grids[2])
    ELSE SumLoop(VAdd(grids[1], grids[2]), 2, grids)

\* the canvas of sample points of lines 129-131
Canvas(xq, yq) == Points(Arange(xq), Arange(yq))

\* lines 133-136
Grids(xq, yq, ps) ==
    LET points == Canvas(xq, yq)
    IN  AsArray([ i \in 1..Len(ps) |-> ContainsPoints(ps[i], points, Dist(xq)[2], Dist(yq)[2]) ])

\* the shape lines 149 and 152 give the result: (len(xs), len(ys))
ResultShape(xq, yq) == << Len(xq), Len(yq) >>

mask_create(xq, yq, ps) ==
    IF Len(xq) = 0 \/ Len(yq) = 0
    THEN Raised("ValueError")            \* max() of an empty sequence, lines 126-127
    ELSE IF ArangeRaises(Dist(xq)) \/ ArangeRaises(Dist(yq))
    THEN Raised("ValueError")            \* line 129
    ELSE LET grids == Grids(xq, yq, ps)
             shape == ResultShape(xq, yq)
         IN  IF Len(grids) > 0
             THEN Reshape(Full(grids), shape[1], shape[2])
             ELSE Zeros(shape[1], shape[2])

----------------------------------------------------------------------------
(* combine_data_and_mask *)

\* xarray.Dataset({'data': data_array, 'mask': ((ycoord, xcoord), mask)}):
\* the mask's two dimensions are named ycoord and xcoord, and xarray raises
\* ValueError when their sizes conflict with the coordinates of data_array.
combine_data_and_mask(xq, yq, m) ==
    IF m.shape # << Len(yq), Len(xq) >>
    THEN Raised("ValueError")
    ELSE [kind |-> "dataset", mask |-> m]

----------------------------------------------------------------------------
(* The capture session *)

NoLasso == [kind |-> "none"]

Free == [kind |-> "none"]

\* another widget of the canvas that took the lock
OtherWidget == [kind |-> "other"]

\* Lasso(event.inaxes, (event.xdata, event.ydata), self.callback)
Lasso(s, ev) == [kind |-> "lasso", session |-> s, start |-> ev.pos]

\* button_press_event: inaxes is None when the press is outside the axes
Events == [inaxes : BOOLEAN, pos : { <<0, 0>>, <<1, 1>> }]

\* self.paths: the instance never assigns the attribute, so the lookup
\* gives the list of the class
PathsOf(s) == paths

\* canvas.widgetlock.locked()
Locked(c) == widgetlock[c] # Free

InProgress == { s \in Sessions : lasso[s] # NoLasso }

NoEvent == [inaxes |-> FALSE, pos |-> << >>]

\* the record of a handler's run: which, on which instance, with which
\* event or vertices, and how it ended
Ended(op, s, ev, verts, outcome) ==
    [op |-> op, session |-> s, ev |-> ev, verts |-> verts, outcome |-> outcome]

captureVars == <<paths, constructed, canvasOf, lasso, widgetlock, completed>>

rasterVars == <<xs, ys, mask, dataset>>

NoResult == [kind |-> "none"]

Init ==
    /\ paths = << >>
    /\ constructed = {}
    /\ canvasOf = [s \in Sessions |-> 0]
    /\ lasso = [s \in Sessions |-> NoLasso]
    /\ widgetlock = [c \in Canvases |-> Free]
    /\ completed = [s \in Sessions |-> 0]
    /\ last = Ended("init", 0, NoEvent, << >>, "ok")
    /\ xs = << >>
    /\ ys = << >>
    /\ mask = NoResult
    /\ dataset = NoResult

\* LassoManager(ax, data), lines 200-218
New(s, c) ==
    /\ s \notin constructed
    /\ constructed' = constructed \cup {s}
    /\ canvasOf' = [canvasOf EXCEPT ![s] = c]
    /\ last' = Ended("init", s, NoEvent, << >>, "ok")
    /\ UNCHANGED <<paths, lasso, widgetlock, completed>>
    /\ UNCHANGED rasterVars

\* onpress without the test of line 234
onpress_NoLockCheck(s, ev) ==
    /\ s \in constructed
    /\ IF ~ev.inaxes
       THEN /\ last' = Ended("onpress", s, ev, << >>, "no axes")
            /\ UNCHANGED captureVars
       ELSE /\ Len(paths) + Cardinality(InProgress) < MaxPaths
            /\ lasso' = [lasso EXCEPT ![s] = Lasso(s, ev)]
            /\ widgetlock' = [widgetlock EXCEPT ![canvasOf[s]] = Lasso(s, ev)]
            /\ last' = Ended("onpress", s, ev, << >>, "started")
            /\ UNCHANGED <<paths, constructed, canvasOf, completed>>
    /\ UNCHANGED rasterVars

\* lines 233-238
onpress(s, ev) ==
    /\ s \in constructed
    /\ IF Locked(canvasOf[s])
       THEN /\ last' = Ended("onpress", s, ev, << >>, "locked")
            /\ UNCHANGED captureVars
       ELSE IF ~ev.inaxes
       THEN /\ last' = Ended("onpress", s, ev, << >>, "no axes")
            /\ UNCHANGED captureVars
       ELSE /\ Len(paths) + Cardinality(InProgress) < MaxPaths
            /\ lasso' = [lasso EXCEPT ![s] = Lasso(s, ev)]
            /\ widgetlock' = [widgetlock EXCEPT ![canvasOf[s]] = Lasso(s, ev)]
            /\ last' = Ended("onpress", s, ev, << >>, "started")
            /\ UNCHANGED <<paths, constructed, canvasOf, completed>>
    /\ UNCHANGED rasterVars

\* lines 220-231; the Lasso of the session calls it with the drag's vertices
callback(s, verts) ==
    /\ s \in constructed
    /\ lasso[s] # NoLasso
    /\ IF PathRaises(verts)
       THEN \* line 222 raises: nothing after it runs
            /\ last' = Ended("callback", s, NoEvent, verts, "raised")
            /\ UNCHANGED captureVars
       ELSE IF widgetlock[canvasOf[s]] # lasso[s]
       THEN \* widgetlock.release raises for a lock of another owner, line 230
            /\ paths' = Append(PathsOf(s), Path(verts))
            /\ last' = Ended("callback", s, NoEvent, verts, "raised")
            /\ UNCHANGED <<constructed, canvasOf, lasso, widgetlock, completed>>
       ELSE /\ paths' = Append(PathsOf(s), Path(verts))
            /\ widgetlock' = [widgetlock EXCEPT ![canvasOf[s]] = Free]
            /\ lasso' = [lasso EXCEPT ![s] = NoLasso]
            /\ completed' = [completed EXCEPT ![s] = @ + 1]
            /\ last' = Ended("callback", s, NoEvent, verts, "ok")
            /\ UNCHANGED <<constructed, canvasOf>>
    /\ UNCHANGED rasterVars

\* another widget of the canvas takes the lock that onpress tests
OtherAcquire(c) ==
    /\ ~Locked(c)
    /\ widgetlock' = [widgetlock EXCEPT ![c] = OtherWidget]
    /\ last' = Ended("other acquire", 0, NoEvent, << >>, "ok")
    /\ UNCHANGED <<paths, constructed, canvasOf, lasso, completed>>
    /\ UNCHANGED rasterVars

OtherRelease(c) ==
    /\ widgetlock[c] = OtherWidget
    /\ widgetlock' = [widgetlock EXCEPT ![c] = Free]
    /\ last' = Ended("other release", 0, NoEvent, << >>, "ok")
    /\ UNCHANGED <<paths, constructed, canvasOf, lasso, completed>>
    /\ UNCHANGED rasterVars

Next ==
    \/ \E s \in Sessions, c \in Canvases : New(s, c)
    \/ \E s \in Sessions, ev \in Events : onpress(s, ev)
    \/ \E s \in Sessions, verts \in VertsInputs : callback(s, verts)
    \/ \E c \in Canvases : OtherAcquire(c)
    \/ \E c \in Canvases : OtherRelease(c)

Spec == Init /\ [][Next]_vars

----------------------------------------------------------------------------
(* The rasterizer, on every grid and every list of stored paths *)

RasterInit ==
    /\ paths \in SeqsUpTo(StorablePaths, MaxPaths)
    /\ constructed = {1}
    /\ canvasOf = [s \in Sessions |-> IF s = 1 THEN 1 ELSE 0]
    /\ lasso = [s \in Sessions |-> NoLasso]
    /\ widgetlock = [c \in Canvases |-> Free]
    /\ completed = [s \in Sessions |-> IF s = 1 THEN Len(paths) ELSE 0]
    /\ last = Ended("init", 1, NoEvent, << >>, "ok")
    /\ xs \in Axes
    /\ ys \in Axes
    /\ mask = NoResult
    /\ dataset = NoResult

\* mask = mask_create(data_array, proj, lman)
MaskCreate ==
    /\ mask' = mask_create(xs, ys, paths)
    /\ last' = Ended("mask_create", 1, NoEvent, << >>,
                   IF mask'.kind = "error" THEN "raised" ELSE "ok")
    /\ UNCHANGED <<xs, ys, dataset>>
    /\ UNCHANGED captureVars

\* dataset = combine_data_and_mask(data_array, mask)
CombineDataAndMask ==
    /\ mask.kind = "array"
    /\ dataset' = combine_data_and_mask(xs, ys, mask)
    /\ last' = Ended("combine_data_and_mask", 1, NoEvent, << >>,
                   IF dataset'.kind = "error" THEN "raised" ELSE "ok")
    /\ UNCHANGED <<xs, ys, mask>>
    /\ UNCHANGED captureVars

RasterNext == MaskCreate \/ CombineDataAndMask

RasterSpec == RasterInit /\ [][RasterNext]_vars

----------------------------------------------------------------------------
(* Properties of the rasterizer, checked under RasterSpec *)

\* the sample point of column i, row j (0-based) of the grid, scaled
SamplePoint(i, j) == << Arange(xs)[i + 1], Arange(ys)[j + 1] >>

\* the sample point is inside at least one of the paths
InSomePath(pt) ==
    \E p \in 1..Len(paths) : ContainsPoint(paths[p], pt, Dist(xs)[2], Dist(ys)[2])

\* mask_create has just returned or raised
Returned == last.op = "mask_create"

\* ... on a grid with at least 2 coordinates per axis
RanOnGrid == Returned /\ Len(xs) >= 2 /\ Len(ys) >= 2

\* the mask of the single path paths[p]
Single(p) == mask_create(xs, ys, << paths[p] >>)

\* how often e occurs in the sequence q
Count(q, e) == Cardinality({ k \in 1..Len(q) : q[k] = e })

\* the rearrangements of q: the sequences with q's elements, each as often
Perms(q) ==
    { r \in [1..Len(q) -> Range(q)] : \A e \in Range(q) : Count(r, e) = Count(q, e) }

\* C1: on a grid with at least 2 coordinates per axis and at least one
\* polygon, mask_create returns an array of shape (len(ys), len(xs)) whose
\* cell [j][i] tells whether the sample point (x_i, y_j) is in a polygon.
C1_ShapeIsYbyX ==
    (RanOnGrid /\ Len(paths) >= 1) =>
        /\ mask.kind = "array"
        /\ mask.shape = << Len(ys), Len(xs) >>
        /\ \A j \in 0..(Len(ys) - 1), i \in 0..(Len(xs) - 1) :
               (Cell(mask, j, i) = 1) <=> InSomePath(SamplePoint(i, j))

\* C2: a cell of the mask is true exactly when its sample point (the point
\* at the cell's place in the flattened canvas) is in at least one of the
\* n >= 1 polygons; the mask of n polygons is the cell by cell OR of the n
\* single-polygon masks, whichever branch of lines 138-147 produced it.
C2_MaskIsOrOfPolygons ==
    (RanOnGrid /\ Len(paths) >= 1 /\ mask.kind = "array") =>
        \* inside[p][k]: point k is in paths[p]; single[p]: the mask of paths[p]
        \A inside \in { Grids(xs, ys, paths) } :
        \A single \in { AsArray([ p \in 1..Len(paths) |-> Single(p) ]) } :
            /\ Len(mask.flat) = Len(Canvas(xs, ys))
            /\ \A k \in 1..Len(mask.flat) :
                   /\ mask.flat[k] \in {0, 1}
                   /\ (mask.flat[k] = 1) <=> (\E p \in 1..Len(paths) : inside[p][k] = 1)
            /\ \A p \in 1..Len(paths) : single[p].shape = mask.shape
            /\ \A k \in 1..Len(mask.flat) :
                   mask.flat[k] = IF \E p \in 1..Len(paths) : single[p].flat[k] = 1 THEN 1 ELSE 0

\* C2 witness: three polygons went through the loop and the mask is the
\* mask of none of them alone.
C2_Witness ==
    /\ RanOnGrid
    /\ mask.kind = "array"
    /\ Len(paths) = 3
    /\ \A p \in 1..Len(paths) : Single(p) # mask

\* C3: with no polygon, mask_create returns an all-false array of shape
\* (len(ys), len(xs)) on every grid with at least 2 coordinates per axis.
C3_EmptyIsAllFalseYbyX ==
    (RanOnGrid /\ Len(paths) = 0) =>
        /\ mask.kind = "array"
        /\ mask.shape = << Len(ys), Len(xs) >>
        /\ \A k \in 1..Len(mask.flat) : mask.flat[k] = 0

\* C7: the mask is the same for every permutation of the polygon sequence.
C7_OrderIndependent ==
    Returned => \A q \in Perms(paths) : mask_create(xs, ys, q) = mask

\* C7 witness: a mask was returned for two or more polygons whose own masks
\* differ from each other.
C7_Witness ==
    /\ RanOnGrid
    /\ mask.kind = "array"
    /\ Len(paths) >= 2
    /\ Single(1) # Single(2)
    /\ \E k \in 1..Len(mask.flat) : Single(1).flat[k] = 1
    /\ \E k \in 1..Len(mask.flat) : Single(2).flat[k] = 1

\* C8: when an axis has fewer than 2 coordinates mask_create raises instead
\* of returning a mask, with or without polygons.
C8_ShortAxisRaises ==
    (Returned /\ (Len(xs) < 2 \/ Len(ys) < 2)) => mask.kind = "error"

\* C8 witness: mask_create raised on a one-coordinate x axis although the
\* y axis is regular and polygons are stored.
C8_Witness ==
    /\ Returned
    /\ mask.kind = "error"
    /\ Len(xs) = 1
    /\ Len(ys) >= 2
    /\ Len(paths) >= 1

\* C9: combine_data_and_mask raises exactly when the mask's shape differs
\* from (len(ys), len(xs)), and so it accepts every mask that mask_create
\* returned for the same field and keeps that mask's contents.
C9_CombineAcceptsOwnMask ==
    last.op = "combine_data_and_mask" =>
        /\ (dataset.kind = "error") <=> (mask.shape # << Len(ys), Len(xs) >>)
        /\ dataset.kind = "dataset"
        /\ dataset.mask = mask

----------------------------------------------------------------------------
(* Properties of the capture session, checked under Spec *)

\* the step is a run of handler op on instance s
Ran(op, s) == last' # last /\ last'.op = op /\ last'.session = s

\* C4: a press starts a lasso and takes the widget lock only when the lock
\* is free and the event is inside the axes; otherwise it changes nothing.
\* Instances of one canvas never have two lassos in progress.
C4_PressOnlyWhenFree ==
    [][ /\ \A s \in Sessions :
              Ran("onpress", s) =>
                  IF widgetlock[canvasOf[s]] # Free \/ ~last'.ev.inaxes
                  THEN captureVars' = captureVars
                  ELSE /\ lasso'[s] = Lasso(s, last'.ev)
                       /\ widgetlock' = [widgetlock EXCEPT ![canvasOf[s]] = lasso'[s]]
                       /\ paths' = paths
        /\ \A s, t \in InProgress' : canvasOf'[s] = canvasOf'[t] => s = t
      ]_vars

\* C4 witness: a press inside the axes was ignored on an instance with no
\* lasso, because the lasso of the other instance holds the canvas's lock.
C4_Witness ==
    /\ last.op = "onpress"
    /\ last.ev.inaxes
    /\ last.outcome = "locked"
    /\ lasso[last.session] = NoLasso
    /\ widgetlock[canvasOf[last.session]].kind = "lasso"

\* C5: every run of callback appends the polygon of the delivered vertices
\* to the end of the instance's sequence, keeps what was stored, releases
\* the lock and discards the lasso; also for 0 or 1 vertices.
C5_CallbackStoresAndReleases ==
    [][ \A s \in Sessions :
            Ran("callback", s) =>
                /\ PathsOf(s)' = Append(PathsOf(s), Path(last'.verts))
                /\ widgetlock'[canvasOf[s]] = Free
                /\ lasso'[s] = NoLasso
      ]_vars

\* C6: a new instance has no polygons, and a callback of one instance
\* leaves the sequence of every other instance unchanged.
C6_PathsPerSession ==
    [][ \A s \in Sessions :
            /\ Ran("init", s) => PathsOf(s)' = << >>
            /\ Ran("callback", s) =>
                   \A t \in constructed \ {s} : PathsOf(t)' = PathsOf(t)
      ]_vars

\* the lock of the instance's canvas is owned by a lasso of the instance
HoldsLock(s) ==
    /\ widgetlock[canvasOf[s]].kind = "lasso"
    /\ widgetlock[canvasOf[s]].session = s

\* C10: an instance holds the lock exactly when it has a lasso, a callback
\* releases only the lock its own lasso took, and the instance has stored
\* as many polygons as it has completed gestures.
C10_LockLassoAndCount ==
    [][ \A s \in constructed' :
            /\ HoldsLock(s)' <=> (lasso'[s] # NoLasso)
            /\ (Ran("callback", s) /\ widgetlock'[canvasOf[s]] # widgetlock[canvasOf[s]])
                   => widgetlock[canvasOf[s]] = lasso[s]
            /\ Len(PathsOf(s)') = completed'[s]
      ]_vars

====
